---------------------------- MODULE Spec2Model ----------------------------
(***************************************************************************)
(* A model of js/web3forms.js: the Web3FormsHandler contact-form           *)
(* controller.  The state is the part of the page the handler reads and    *)
(* writes (the form's fields, the submit button, the status region), the   *)
(* browser's timer queue, the ambient global grecaptcha, and the position  *)
(* of every handleSubmit call that is suspended at an await.               *)
(*                                                                         *)
(* Time is counted in ticks of one poll interval (500 ms).  A timer fires  *)
(* when its delay has elapsed: time does not advance past a due timer.     *)
(* One action is one browser task: a handler runs from the event that      *)
(* starts it to its next suspension point, including the microtasks        *)
(* (promise continuations) it schedules, with nothing interleaved.         *)
(***************************************************************************)
EXTENDS Integers, Sequences, FiniteSets, TLC

(***************************************************************************)
(* Program constants.                                                      *)
(***************************************************************************)
\* const maxAttempts = 20;
maxAttempts == 20
\* setTimeout(checkRecaptcha, 500);
PollDelayMs == 500
\* setTimeout(() => this.hideStatus(), 5000);
HideDelayMs == 5000

\* One tick of the model's clock, in milliseconds: the poll interval.
TickMs == PollDelayMs
PollTicks == PollDelayMs \div TickMs
HideTicks == HideDelayMs \div TickMs

ValidationMsg == "Please fill in all required fields."
HoneypotMsg == "Thank you! Your message has been sent."
SuccessMsg == "Thank you! Your message has been sent successfully."
ErrorMsg == "Sorry, there was an error sending your message. Please try again or email us directly."

(***************************************************************************)
(* Bounds of the model.                                                    *)
(***************************************************************************)
\* Submit events handled in one behaviour.
MaxSubmits == 2
\* Ticks a pending token acquisition is followed beyond the polling ceiling.
WaitSlack == 1

\* The ceiling the polls set: the 20th check happens 19 intervals after the
\* first, "about 10 seconds" is 20 intervals.
WaitCeiling == maxAttempts * PollTicks
MaxWait == WaitCeiling + WaitSlack

(***************************************************************************)
(* Inputs.                                                                 *)
(***************************************************************************)
\* Values of the form's required text field; "" is the default (empty) value.
FieldValues == {"", "a"}
\* Tokens the provider's execute() may resolve with.
ProviderTokens == {"t1", "t2"}
TokenValues == {""} \cup ProviderTokens
\* The Analytics Sink at the time of a success response.
GtagBehaviours == {"absent", "returns", "throws"}
\* The body of a response of the Form Ingestion API, as response.json() sees it.
ResponseBodies == {"success", "failure", "unparsable"}

Calls == 1..MaxSubmits

\* The elements of the host page the handler looks up and guards against
\* missing: #formStatus, input[name="botcheck"], .btn-text, .btn-loader.
PageElements == {"statusDiv", "honeypot", "btnText", "btnLoader"}
\* The host pages followed: the full page, and the pages that lack one element.
Pages == {p \in [PageElements -> BOOLEAN] : Cardinality({e \in PageElements : ~p[e]}) <= 1}

VARIABLES
    page,        \* which of the optional elements the host page holds
    form,        \* the form's controls: message, botcheck (honeypot), recaptchaResponse (hidden)
    button,      \* the submit button: disabled, and the display of .btn-text and .btn-loader
    status,      \* the status region #formStatus: textContent, className, style.display
    timers,      \* the pending hideStatus timers, oldest first: ticks left of each
    grecaptcha,  \* whether the global grecaptcha is defined (the provider's script ran)
    calls,       \* the handleSubmit calls: where each is suspended
    nSubmits,    \* submit events handled so far
    last         \* the step just taken: its operation, call and outcome

vars == <<page, form, button, status, timers, grecaptcha, calls, nSubmits, last>>

(***************************************************************************)
(* The page, as the handler's methods see and change it.                   *)
(***************************************************************************)
\* showCalls and gtagCalls count the calls of showStatus and of gtag that the
\* handler makes in the task at hand.
Dom == [form |-> form, button |-> button, status |-> status, timers |-> timers,
        showCalls |-> 0, gtagCalls |-> 0]

Commit(d) ==
    /\ form' = d.form
    /\ button' = d.button
    /\ status' = d.status
    /\ timers' = d.timers

DefaultForm == [message |-> "", botcheck |-> FALSE, recaptchaResponse |-> ""]

\* this.form.checkValidity(): the required field holds a value.
checkValidity(f) == f.message # ""

\* this.form.reset(): every control goes back to its default value.  A hidden
\* input has no separate default: its value is its value attribute, which
\* reset() leaves alone.
reset(d) ==
    [d EXCEPT !.form = [message |-> DefaultForm.message,
                        botcheck |-> DefaultForm.botcheck,
                        recaptchaResponse |-> d.form.recaptchaResponse]]

\* new FormData(this.form): the text field and the hidden field with their
\* values, the checkbox only when it is checked.
FormData(f) ==
    [message |-> f.message, botcheck |-> f.botcheck,
     recaptchaResponse |-> f.recaptchaResponse]

\* setLoadingState with `this.submitButton.disabled = true` left out.
setLoadingState_NotDisabled(d, isLoading) ==
    IF isLoading
    THEN [d EXCEPT !.button.btnText = IF page.btnText THEN "none" ELSE @,
                   !.button.btnLoader = IF page.btnLoader THEN "inline-block" ELSE @]
    ELSE [d EXCEPT !.button.disabled = FALSE,
                   !.button.btnText = IF page.btnText THEN "inline" ELSE @,
                   !.button.btnLoader = IF page.btnLoader THEN "none" ELSE @]

setLoadingState(d, isLoading) ==
    IF isLoading
    THEN [d EXCEPT !.button.disabled = TRUE,
                   !.button.btnText = IF page.btnText THEN "none" ELSE @,
                   !.button.btnLoader = IF page.btnLoader THEN "inline-block" ELSE @]
    ELSE [d EXCEPT !.button.disabled = FALSE,
                   !.button.btnText = IF page.btnText THEN "inline" ELSE @,
                   !.button.btnLoader = IF page.btnLoader THEN "none" ELSE @]

\* showStatus arming the hide timer for every kind of message.
showStatus_AlwaysArms(d, message, type) ==
    IF ~page.statusDiv
    THEN [d EXCEPT !.showCalls = @ + 1]
    ELSE [d EXCEPT !.showCalls = @ + 1,
                   !.status = [text |-> message, kind |-> type, display |-> "block"],
                   !.timers = Append(@, HideTicks)]

\* showStatus(message, type): nothing but the call when the page has no status
\* region; the hide timer is armed for a success message only.
showStatus(d, message, type) ==
    IF ~page.statusDiv
    THEN [d EXCEPT !.showCalls = @ + 1]
    ELSE [d EXCEPT !.showCalls = @ + 1,
                   !.status = [text |-> message, kind |-> type, display |-> "block"],
                   !.timers = IF type = "success" THEN Append(@, HideTicks) ELSE @]

hideStatus(d) ==
    IF page.statusDiv
    THEN [d EXCEPT !.status.display = "none"]
    ELSE d


\* A catch block that also clears the form.
catch_Resets(d) == reset(showStatus(d, ErrorMsg, "error"))

\* The catch block of handleSubmit, and its finally block.
catch(d) == showStatus(d, ErrorMsg, "error")

finally(d) == setLoadingState(d, FALSE)

(***************************************************************************)
(* The handleSubmit calls.  pc is where a call is suspended:               *)
(*   "new"      not started                                                *)
(*   "poll"     getRecaptchaToken: waiting for setTimeout(checkRecaptcha)  *)
(*   "ready"    getRecaptchaToken: grecaptcha.ready(cb) called, cb pending *)
(*   "execute"  getRecaptchaToken: grecaptcha.execute() promise pending    *)
(*   "fetch"    await fetch(...): request dispatched, response pending     *)
(*   "json"     await response.json(): body pending                        *)
(*   "done"     returned                                                   *)
(***************************************************************************)
NoRequest == [message |-> "", botcheck |-> FALSE, recaptchaResponse |-> ""]

\* The fields the user fills in, of a form or of a payload.
UserFields(f) == [message |-> f.message, botcheck |-> f.botcheck]

\* seen is what handleSubmit read of the form when the submit event was
\* handled: the values checkValidity() and the honeypot check looked at.
NewCall == [pc |-> "new", attempts |-> 0, wait |-> 0, elapsed |-> 0,
            seen |-> UserFields(NoRequest), request |-> NoRequest, httpOk |-> TRUE]

DoneCall == [NewCall EXCEPT !.pc = "done"]

Acquiring(call) == call.pc \in {"poll", "ready", "execute"}

InFlight(call) == call.pc \in {"poll", "ready", "execute", "fetch", "json"}

\* The requests the Form Ingestion API has received and not yet answered in full.
PendingRequests == {c \in Calls : calls[c].pc \in {"fetch", "json"}}

\* How the token acquisition of a call that has dispatched its request ended.
Via(call) ==
    IF call.pc \in {"fetch", "json"}
    THEN (IF call.request.recaptchaResponse = "" THEN "timeout" ELSE "token")
    ELSE "none"

\* The record of a step: the operation and its call, how the call's token
\* acquisition had ended, the Analytics Sink met, the token the provider
\* resolved with, and the showStatus and gtag calls made.
Step(op, c, via, g) ==
    [op |-> op, call |-> c, via |-> via, gtag |-> g, token |-> "none",
     showCalls |-> 0, gtagCalls |-> 0]

\* The record of a step of the handler that left the page d.
Did(step, d) ==
    [step EXCEPT !.showCalls = d.showCalls, !.gtagCalls = d.gtagCalls]

\* A step of the environment (the user, the clock, the provider's script).
Environment == Step("environment", 0, "none", "none")

\* The same with the form data collected before the token is written to the
\* hidden field.
Dispatch_CollectsFirst(d, call, token) ==
    LET d1 == [d EXCEPT !.form.recaptchaResponse = token]
    IN  [dom |-> d1,
         call |-> [call EXCEPT !.pc = "fetch", !.wait = 0, !.attempts = 0,
                               !.elapsed = 0, !.request = FormData(d.form)],
         op |-> IF token = "" THEN "timeout" ELSE "token"]

\* handleSubmit after `await this.getRecaptchaToken()`: the token goes into the
\* hidden field, the form data is collected, the POST is dispatched.
Dispatch(d, call, token) ==
    LET d1 == [d EXCEPT !.form.recaptchaResponse = token]
    IN  [dom |-> d1,
         call |-> [call EXCEPT !.pc = "fetch", !.wait = 0, !.attempts = 0,
                               !.elapsed = 0, !.request = FormData(d1.form)],
         op |-> IF token = "" THEN "timeout" ELSE "token"]

\* checkRecaptcha counting the attempt and testing the ceiling before it looks
\* for the provider.
checkRecaptcha_CountsFirst(d, call) ==
    LET attempts == call.attempts + 1
    IN  IF attempts >= maxAttempts
        THEN Dispatch(d, [call EXCEPT !.attempts = attempts], "")
        ELSE IF grecaptcha
        THEN [dom |-> d, call |-> [call EXCEPT !.pc = "ready", !.wait = 0],
              op |-> "found"]
        ELSE [dom |-> d,
              call |-> [call EXCEPT !.pc = "poll", !.attempts = attempts,
                                    !.wait = PollTicks],
              op |-> "pollAgain"]

\* checkRecaptcha with `attempts <= maxAttempts`: one poll too many.
checkRecaptcha_OffByOne(d, call) ==
    IF grecaptcha
    THEN [dom |-> d, call |-> [call EXCEPT !.pc = "ready", !.wait = 0],
          op |-> "found"]
    ELSE LET attempts == call.attempts + 1
         IN  IF attempts <= maxAttempts
             THEN [dom |-> d,
                   call |-> [call EXCEPT !.pc = "poll", !.attempts = attempts,
                                         !.wait = PollTicks],
                   op |-> "pollAgain"]
             ELSE Dispatch(d, [call EXCEPT !.attempts = attempts], "")

\* checkRecaptcha(), the body of one readiness check of getRecaptchaToken.
checkRecaptcha(d, call) ==
    IF grecaptcha
    THEN [dom |-> d, call |-> [call EXCEPT !.pc = "ready", !.wait = 0],
          op |-> "found"]
    ELSE LET attempts == call.attempts + 1
         IN  IF attempts < maxAttempts
             THEN [dom |-> d,
                   call |-> [call EXCEPT !.pc = "poll", !.attempts = attempts,
                                         !.wait = PollTicks],
                   op |-> "pollAgain"]
             ELSE Dispatch(d, [call EXCEPT !.attempts = attempts], "")

Init ==
    /\ page \in Pages
    /\ form = DefaultForm
    /\ button = [disabled |-> FALSE,
                 btnText |-> IF page.btnText THEN "inline" ELSE "absent",
                 btnLoader |-> IF page.btnLoader THEN "none" ELSE "absent"]
    /\ status = [text |-> "", kind |-> "",
                 display |-> IF page.statusDiv THEN "none" ELSE "absent"]
    /\ timers = <<>>
    /\ grecaptcha = FALSE
    /\ calls = [c \in Calls |-> NewCall]
    /\ nSubmits = 0
    /\ last = Step("init", 0, "none", "none")

(***************************************************************************)
(* The environment: the user, the provider's script, the clock.            *)
(***************************************************************************)
\* The user (or a script) edits the required field.
SetField(v) ==
    /\ v # form.message
    /\ form' = [form EXCEPT !.message = v]
    /\ last' = Environment
    /\ UNCHANGED <<page, button, status, timers, grecaptcha, calls, nSubmits>>

\* An automated filler checks (or unchecks) the honeypot checkbox.
ToggleBotcheck ==
    /\ page.honeypot
    /\ form' = [form EXCEPT !.botcheck = ~form.botcheck]
    /\ last' = Environment
    /\ UNCHANGED <<page, button, status, timers, grecaptcha, calls, nSubmits>>

\* The script loadRecaptcha() injected has run: the global grecaptcha exists.
ScriptLoaded ==
    /\ ~grecaptcha
    /\ grecaptcha' = TRUE
    /\ last' = Environment
    /\ UNCHANGED <<page, form, button, status, timers, calls, nSubmits>>

\* The oldest hideStatus timer has run its delay.
HideDue == Len(timers) > 0 /\ timers[1] = 0

Inc(n, cap) == IF n < cap THEN n + 1 ELSE cap

\* One poll interval passes.  No timer is due: a due timer fires first.
Tick ==
    /\ ~HideDue
    /\ \A c \in Calls : calls[c].pc = "poll" => calls[c].wait > 0
    /\ timers' = [i \in 1..Len(timers) |-> timers[i] - 1]
    /\ calls' = [c \in Calls |->
                   IF Acquiring(calls[c])
                   THEN [calls[c] EXCEPT
                            !.wait = IF calls[c].pc = "poll" THEN @ - 1 ELSE @,
                            !.elapsed = Inc(@, MaxWait)]
                   ELSE calls[c]]
    /\ last' = Environment
    /\ UNCHANGED <<page, form, button, status, grecaptcha, nSubmits>>

\* The oldest timer armed by showStatus is due: () => this.hideStatus().
TimerHide ==
    /\ HideDue
    /\ Commit(hideStatus([Dom EXCEPT !.timers = Tail(@)]))
    /\ last' = Step("timerHide", 0, "none", "none")
    /\ UNCHANGED <<page, grecaptcha, calls, nSubmits>>

(***************************************************************************)
(* The handler.                                                            *)
(***************************************************************************)
\* A submit event reaches the listener only through the form's submit
\* control, which raises none while it is disabled.
SubmitEvent(c) ==
    /\ nSubmits < MaxSubmits
    /\ c = nSubmits + 1
    /\ ~button.disabled

\* handleSubmit with the `return` after the validation error left out.
submitted_NoReturnOnInvalid(d, call) ==
    LET d0 == IF ~checkValidity(d.form)
              THEN showStatus(d, ValidationMsg, "error")
              ELSE d
    IN  IF page.honeypot /\ d0.form.botcheck
        THEN [dom |-> reset(showStatus(d0, HoneypotMsg, "success")),
              call |-> DoneCall, op |-> "honeypot"]
        ELSE [checkRecaptcha(hideStatus(setLoadingState(d0, TRUE)), call)
                EXCEPT !.op = "loading"]

\* handleSubmit with the honeypot check left out.
submitted_NoHoneypot(d, call) ==
    IF ~checkValidity(d.form)
    THEN [dom |-> showStatus(d, ValidationMsg, "error"), call |-> DoneCall,
          op |-> "invalid"]
    ELSE [checkRecaptcha(hideStatus(setLoadingState(d, TRUE)), call)
            EXCEPT !.op = "loading"]

\* handleSubmit reporting the simulated success of the honeypot path to the
\* Analytics Sink as well.
submitted_TracksHoneypot(d, call) ==
    IF ~checkValidity(d.form)
    THEN [dom |-> showStatus(d, ValidationMsg, "error"), call |-> DoneCall,
          op |-> "invalid"]
    ELSE IF page.honeypot /\ d.form.botcheck
    THEN [dom |-> [reset(showStatus(d, HoneypotMsg, "success"))
                     EXCEPT !.gtagCalls = @ + 1],
          call |-> DoneCall, op |-> "honeypot"]
    ELSE [checkRecaptcha(hideStatus(setLoadingState(d, TRUE)),
                         [call EXCEPT !.seen = UserFields(d.form)])
            EXCEPT !.op = "loading"]

\* handleSubmit without the hideStatus() call after setLoadingState(true).
submitted_KeepsStatus(d, call) ==
    IF ~checkValidity(d.form)
    THEN [dom |-> showStatus(d, ValidationMsg, "error"), call |-> DoneCall,
          op |-> "invalid"]
    ELSE IF page.honeypot /\ d.form.botcheck
    THEN [dom |-> reset(showStatus(d, HoneypotMsg, "success")), call |-> DoneCall,
          op |-> "honeypot"]
    ELSE [checkRecaptcha(setLoadingState(d, TRUE),
                         [call EXCEPT !.seen = UserFields(d.form)])
            EXCEPT !.op = "loading"]

\* handleSubmit(e) on the page d, from the event to the first suspension of
\* the call (inside getRecaptchaToken) or to its early return.
submitted(d, call) ==
    IF ~checkValidity(d.form)
    THEN [dom |-> showStatus(d, ValidationMsg, "error"), call |-> DoneCall,
          op |-> "invalid"]
    ELSE IF page.honeypot /\ d.form.botcheck
    THEN [dom |-> reset(showStatus(d, HoneypotMsg, "success")), call |-> DoneCall,
          op |-> "honeypot"]
    ELSE [checkRecaptcha(hideStatus(setLoadingState(d, TRUE)),
                         [call EXCEPT !.seen = UserFields(d.form)])
            EXCEPT !.op = "loading"]

\* A submit event is handled.
handleSubmit(c) ==
    /\ SubmitEvent(c)
    /\ nSubmits' = c
    /\ LET r == submitted(Dom, calls[c])
       IN  /\ Commit(r.dom)
           /\ calls' = [calls EXCEPT ![c] = r.call]
           /\ last' = Did(Step(r.op, c, "none", "none"), r.dom)
    /\ UNCHANGED <<page, grecaptcha>>

\* setTimeout(checkRecaptcha, 500) is due: the next readiness check.
PollTimer(c) ==
    /\ calls[c].pc = "poll"
    /\ calls[c].wait = 0
    /\ LET r == checkRecaptcha(Dom, calls[c])
       IN  /\ Commit(r.dom)
           /\ calls' = [calls EXCEPT ![c] = r.call]
           /\ last' = Did(Step(r.op, c, "none", "none"), r.dom)
    /\ UNCHANGED <<page, grecaptcha, nSubmits>>

\* The provider invokes the callback given to grecaptcha.ready: execute() is called.
ReadyCallback(c) ==
    /\ calls[c].pc = "ready"
    /\ calls' = [calls EXCEPT ![c].pc = "execute"]
    /\ last' = Step("readyCallback", c, "none", "none")
    /\ UNCHANGED <<page, form, button, status, timers, grecaptcha, nSubmits>>

\* execute() resolves with a token: resolve(token), and handleSubmit goes on.
ExecuteResolves(c, token) ==
    /\ calls[c].pc = "execute"
    /\ LET r == Dispatch(Dom, calls[c], token)
       IN  /\ Commit(r.dom)
           /\ calls' = [calls EXCEPT ![c] = r.call]
           /\ last' = Did([Step(r.op, c, "none", "none") EXCEPT !.token = token],
                          r.dom)
    /\ UNCHANGED <<page, grecaptcha, nSubmits>>

\* A call ends: the page it leaves, and what is recorded of the step.
Returns(c, d, op, gtag) ==
    /\ Commit(d)
    /\ calls' = [calls EXCEPT ![c] = DoneCall]
    /\ last' = Did(Step(op, c, Via(calls[c]), gtag), d)
    /\ UNCHANGED <<page, grecaptcha, nSubmits>>

\* The throwing paths with the restore at the end of the try block only.
thrown_NoFinally(d) == catch(d)

\* The try block throws: the catch block, then the finally block.
thrown(d) == finally(catch(d))

\* The try block from `if (data.success)` on, for a parsed body with
\* data.success true: the catch block runs if gtag throws, finally always.
succeeded(d, gtag) ==
    LET d1 == reset(showStatus(d, SuccessMsg, "success"))
        d2 == IF gtag = "absent" THEN d1 ELSE [d1 EXCEPT !.gtagCalls = @ + 1]
    IN  finally(IF gtag = "throws" THEN catch(d2) ELSE d2)

\* execute() rejects with `.catch(() => resolve(''))`: the rejection is swallowed
\* and the submission goes on without a token.
ExecuteRejects_ResolvesEmpty(c) ==
    /\ calls[c].pc = "execute"
    /\ LET r == Dispatch(Dom, calls[c], "")
       IN  /\ Commit(r.dom)
           /\ calls' = [calls EXCEPT ![c] = r.call]
           /\ last' = Did(Step("tokenRejected", c, "none", "none"), r.dom)
    /\ UNCHANGED <<page, grecaptcha, nSubmits>>

\* execute() rejects: .catch(reject), and the await throws.
ExecuteRejects(c) ==
    /\ calls[c].pc = "execute"
    /\ Returns(c, thrown(Dom), "tokenRejected", "none")

\* fetch() resolves with a response (of any HTTP status).
FetchResolves(c, ok) ==
    /\ calls[c].pc = "fetch"
    /\ calls' = [calls EXCEPT ![c].pc = "json", ![c].httpOk = ok]
    /\ last' = Step("response", c, Via(calls[c]), "none")
    /\ UNCHANGED <<page, form, button, status, timers, grecaptcha, nSubmits>>

\* fetch() rejects: the network call failed.
FetchRejects(c) ==
    /\ calls[c].pc = "fetch"
    /\ Returns(c, thrown(Dom), "networkFailure", "none")

\* response.json() settles: the body parsed (data.success true or false), or
\* it could not be parsed.  gtag is the Analytics Sink as it is at that time.
JsonSettles(c, body, gtag) ==
    /\ calls[c].pc = "json"
    /\ IF body = "success"
       THEN Returns(c, succeeded(Dom, gtag), "success", gtag)
       ELSE Returns(c, thrown(Dom), body, "none")

Next ==
    \/ \E v \in FieldValues : SetField(v)
    \/ ToggleBotcheck
    \/ ScriptLoaded
    \/ Tick
    \/ TimerHide
    \/ \E c \in Calls : handleSubmit(c)
    \/ \E c \in Calls : PollTimer(c)
    \/ \E c \in Calls : ReadyCallback(c)
    \/ \E c \in Calls, token \in ProviderTokens : ExecuteResolves(c, token)
    \/ \E c \in Calls : ExecuteRejects(c)
    \/ \E c \in Calls, ok \in BOOLEAN : FetchResolves(c, ok)
    \/ \E c \in Calls : FetchRejects(c)
    \/ \E c \in Calls, body \in ResponseBodies, gtag \in GtagBehaviours :
          JsonSettles(c, body, gtag)

Spec == Init /\ [][Next]_vars

(***************************************************************************)
(* Progress.  The event loop runs due timers and time passes; on the       *)
(* outcome paths of a submission the provider invokes the ready callback   *)
(* and settles execute(), and the network settles fetch() and json().      *)
(***************************************************************************)
ExecuteSettles(c) ==
    ExecuteRejects(c) \/ \E token \in ProviderTokens : ExecuteResolves(c, token)

FetchSettles(c) ==
    FetchRejects(c) \/ \E ok \in BOOLEAN : FetchResolves(c, ok)

BodySettles(c) ==
    \E body \in ResponseBodies, gtag \in GtagBehaviours : JsonSettles(c, body, gtag)

\* The next step of some suspended call: its poll timer, or an answer.
Resumes ==
    \E c \in Calls :
        \/ PollTimer(c)
        \/ ReadyCallback(c)
        \/ ExecuteSettles(c)
        \/ FetchSettles(c)
        \/ BodySettles(c)

\* The host page with all its elements.
FullPage == [e \in PageElements |-> TRUE]

FairInit == Init /\ page = FullPage

FairSpec ==
    /\ FairInit
    /\ [][Next]_vars
    /\ WF_vars(Tick) /\ WF_vars(TimerHide) /\ WF_vars(Resumes)

(***************************************************************************)
(* What a step did, read off the two states of the step.                   *)
(***************************************************************************)
\* A submit event was handled in this step.
Submitted == nSubmits' = nSubmits + 1

AcquiringCalls == {c \in Calls : Acquiring(calls[c])}

InFlightCalls == {c \in Calls : InFlight(calls[c])}

\* The step dispatched no request and started no token acquisition.
NoNetworkActivity ==
    /\ PendingRequests' = PendingRequests
    /\ AcquiringCalls' = AcquiringCalls

Shows(st, message, type) ==
    page.statusDiv => st = [text |-> message, kind |-> type, display |-> "block"]

(***************************************************************************)
(* C1.  A handleSubmit call on a form whose checkValidity() fails shows    *)
(* 'Please fill in all required fields.' with kind error in the status     *)
(* region, returns, dispatches no request and starts no token acquisition, *)
(* whether or not the honeypot is checked.                                 *)
(***************************************************************************)
C1_InvalidShowsErrorNoNetwork ==
    [][(Submitted /\ ~checkValidity(form)) =>
          /\ Shows(status', ValidationMsg, "error")
          /\ calls'[nSubmits'].pc = "done"
          /\ NoNetworkActivity]_vars

C1_Witness ==
    /\ last.op = "invalid"
    /\ form.botcheck
    /\ status = [text |-> ValidationMsg, kind |-> "error", display |-> "block"]
    /\ InFlightCalls = {}

(***************************************************************************)
(* C2.  A handleSubmit call on a valid form whose honeypot is checked      *)
(* shows the success message (kind success), resets the form, returns,     *)
(* dispatches no request and starts no token acquisition.                  *)
(***************************************************************************)
C2_HoneypotMaskedAsSuccess ==
    [][(Submitted /\ checkValidity(form) /\ page.honeypot /\ form.botcheck) =>
          /\ Shows(status', HoneypotMsg, "success")
          /\ form'.message = DefaultForm.message
          /\ form'.botcheck = DefaultForm.botcheck
          /\ calls'[nSubmits'].pc = "done"
          /\ NoNetworkActivity]_vars

C2_Witness ==
    /\ last.op = "honeypot"
    /\ status = [text |-> HoneypotMsg, kind |-> "success", display |-> "block"]
    /\ form.message = "" /\ ~form.botcheck
    /\ InFlightCalls = {}

(***************************************************************************)
(* C3.  With submit events raised only by the enabled submit control, at   *)
(* most one submission is in flight at any time, at most one request to    *)
(* the Form Ingestion API is pending, and the control is disabled for as   *)
(* long as a submission is in flight.                                      *)
(***************************************************************************)
C3_OneSubmissionInFlight ==
    /\ Cardinality(InFlightCalls) <= 1
    /\ Cardinality(PendingRequests) <= 1
    /\ InFlightCalls # {} => button.disabled

\* A second submission, after the first has ended, waits for its response.
C3_Witness ==
    /\ nSubmits = 2
    /\ calls[2].pc = "fetch"
    /\ PendingRequests = {2}
    /\ button.disabled

(***************************************************************************)
(* C4.  On every outcome path of a submission attempt (validation failure, *)
(* honeypot, success response, failure response, unparsable response,      *)
(* network failure, token rejection, token timeout) the submit control     *)
(* ends enabled with its label visible and its spinner hidden: whenever no *)
(* submission is in flight the control is in that state, every step that   *)
(* ends a call leaves it so, and a submission in flight whose provider and *)
(* network answer does end.                                                *)
(***************************************************************************)
Restored(b) ==
    /\ ~b.disabled
    /\ page.btnText => b.btnText = "inline"
    /\ page.btnLoader => b.btnLoader = "none"

C5_AcquisitionSettlesWithinCeiling ==
    \A c \in Calls : Acquiring(calls[c]) => calls[c].elapsed <= WaitCeiling

(***************************************************************************)
(* C6.  If the provider is still absent at the 20th readiness check of an  *)
(* acquisition, that check resolves the acquisition with the empty string: *)
(* in the same step the hidden field is set to '' and exactly one POST is  *)
(* dispatched whose recaptchaResponse is ''.  Polling never goes beyond    *)
(* that check, and a polling acquisition whose provider stays absent does  *)
(* reach the dispatch.                                                     *)
(***************************************************************************)
PollingCalls == {c \in Calls : calls[c].pc = "poll"}

\* Call c runs its 20th readiness check in this step and finds no provider.
LastCheckFails(c) ==
    /\ calls[c].pc = "poll"
    /\ calls[c].wait = 0
    /\ calls[c].attempts = maxAttempts - 1
    /\ ~grecaptcha
    /\ calls'[c] # calls[c]

DispatchedWithoutToken(c) ==
    /\ calls[c].pc = "fetch"
    /\ calls[c].request.recaptchaResponse = ""

C6_TimeoutProceedsWithEmptyToken ==
    /\ [][\A c \in Calls :
            LastCheckFails(c) =>
               /\ DispatchedWithoutToken(c)'
               /\ form'.recaptchaResponse = ""
               /\ PendingRequests' = {c}
               /\ PendingRequests = {}]_vars
    /\ [](\A c \in PollingCalls :
            /\ calls[c].attempts < maxAttempts
            /\ calls[c].elapsed + calls[c].wait = calls[c].attempts * PollTicks)
    /\ (PollingCalls # {}) ~>
            (grecaptcha \/ \E c \in Calls : DispatchedWithoutToken(c))

C6_Witness ==
    /\ last.op = "timeout"
    /\ ~grecaptcha
    /\ DispatchedWithoutToken(last.call)
    /\ form.recaptchaResponse = ""
    /\ PendingRequests = {last.call}

(***************************************************************************)
(* C7.  For every submission whose response parses to JSON with success    *)
(* true, the form is reset and the success message is displayed with kind  *)
(* success (stated here for an Analytics Sink that does not throw), and a  *)
(* timer hides that message exactly 5 seconds after it was displayed, not  *)
(* earlier, whatever was submitted and shown before.                       *)
(***************************************************************************)
\* How long the displayed success message has been shown: the last timer of
\* the queue is the one its showStatus armed.
ShownFor == HideTicks - timers[Len(timers)]

\* A hideStatus timer fires in this step.
TimerFires == Len(timers') < Len(timers)

C7_SuccessHiddenAfterFiveSeconds ==
    [][/\ (last'.op = "success" /\ last'.gtag # "throws") =>
             /\ Shows(status', SuccessMsg, "success")
             /\ form'.message = DefaultForm.message
             /\ form'.botcheck = DefaultForm.botcheck
       /\ (TimerFires /\ status.display = "block" /\ status.text = SuccessMsg) =>
             ShownFor = HideTicks]_vars

(***************************************************************************)
(* C8.  An error message, once shown, stays as it is until the next        *)
(* submission action overwrites or hides it: no timer hides it, not even   *)
(* one armed by an earlier success message.                                *)
(***************************************************************************)
C8_ErrorStaysUntilNextAction ==
    [][(status.display = "block" /\ status.kind = "error" /\ status' # status) =>
          (Submitted /\ ~TimerFires)]_vars

(***************************************************************************)
(* C9.  When the response has success false, or its body cannot be parsed, *)
(* or the network call rejects, the call ends showing the generic error    *)
(* message with kind error and leaves every form field as it was.          *)
(***************************************************************************)
C9_FailureKeepsForm ==
    [][\A c \in Calls :
          (/\ calls[c].pc \in {"fetch", "json"}
           /\ calls'[c].pc = "done"
           /\ last'.op \in {"failure", "unparsable", "networkFailure"}) =>
              /\ Shows(status', ErrorMsg, "error")
              /\ form' = form]_vars

C9_Witness ==
    /\ last.op = "failure"
    /\ status = [text |-> ErrorMsg, kind |-> "error", display |-> "block"]
    /\ form.message = "a"
    /\ form.recaptchaResponse \in ProviderTokens

(***************************************************************************)
(* C10.  On a success response the outcome is the same whether the         *)
(* Analytics Sink is absent, returns or throws: the success message is     *)
(* shown with kind success, the form is reset, the control is re-enabled.  *)
(***************************************************************************)
C10_AnalyticsNeverChangesOutcome ==
    [][last'.op = "success" =>
          /\ Shows(status', SuccessMsg, "success")
          /\ form'.message = DefaultForm.message
          /\ form'.botcheck = DefaultForm.botcheck
          /\ Restored(button')]_vars

\* A call whose execute() settles without a token of the provider: execute()
\* rejected.
ExecuteRejected(c) ==
    /\ calls[c].pc = "execute"
    /\ calls'[c].pc # "execute"
    /\ last'.token \notin ProviderTokens

C12_AnalyticsOnlyOnSuccess ==
    [][/\ last'.gtagCalls > 0 =>
            /\ last'.op = "success"
            /\ last'.gtagCalls = 1
            /\ calls[last'.call].pc = "json"
            /\ calls'[last'.call].pc = "done"
       /\ last'.op \in {"invalid", "honeypot", "tokenRejected", "failure",
                        "unparsable", "networkFailure"} => last'.gtagCalls = 0
       /\ \A c \in Calls : calls[c].pc = "done" => calls'[c] = calls[c]]_vars

C12_Witness ==
    /\ last.op = "success"
    /\ last.gtag = "returns"
    /\ last.gtagCalls = 1
    /\ calls[last.call].pc = "done"

\* C13: the payload a call dispatches holds the user's field values as they
\* were when the submit event was handled (the values checkValidity() and the
\* honeypot check read), whatever is edited while the token is awaited.
C13_PayloadIsFormAtSubmit ==
    [][\A c \in Calls :
         Acquiring(calls[c]) /\ calls'[c].pc = "fetch" =>
             UserFields(calls'[c].request) = calls[c].seen]_vars

\* C14: a response with a non-2xx HTTP status always ends the call with the
\* generic error message and the form not reset, whatever its body.
C14_Non2xxShowsError ==
    [][\A c \in Calls :
         calls[c].pc = "json" /\ ~calls[c].httpOk /\ calls'[c].pc = "done" =>
             /\ Shows(status', ErrorMsg, "error")
             /\ form' = form]_vars

\* The call dispatches its request in this step.
Dispatches(c) == Acquiring(calls[c]) /\ calls'[c].pc = "fetch"

\* C15: in every request dispatched, recaptchaResponse is the value this call's
\* own token acquisition resolved with in that step: the token execute() gave,
\* or '' when the last readiness check failed.  The hidden field holds that
\* value when the form data is collected, whatever an earlier submission had
\* left in it.
C15_RequestCarriesOwnToken ==
    [][\A c \in Calls :
         Dispatches(c) =>
             /\ last'.call = c
             /\ \/ /\ calls[c].pc = "execute"
                   /\ last'.token \in ProviderTokens
                   /\ calls'[c].request.recaptchaResponse = last'.token
                \/ /\ LastCheckFails(c)
                   /\ last'.token = "none"
                   /\ calls'[c].request.recaptchaResponse = ""
             /\ form'.recaptchaResponse = calls'[c].request.recaptchaResponse
             /\ UserFields(form') = UserFields(form)]_vars

\* After a first submission that was posted and accepted, a second one posts
\* the token t2 of its own acquisition.
C15_Witness ==
    /\ nSubmits = 2
    /\ calls[1].pc = "done"
    /\ status.text = SuccessMsg
    /\ calls[2].pc = "fetch"
    /\ last.token = "t2"
    /\ calls[2].request.recaptchaResponse = "t2"

\* Call c runs a readiness check in this step: the first one, in the task of
\* the submit event, or a later one, in the task of a poll timer.
Checks(c) ==
    \/ calls[c].pc = "new" /\ calls'[c].pc \notin {"new", "done"}
    \/ /\ calls[c].pc = "poll"
       /\ calls'[c].pc # "poll" \/ calls'[c].attempts # calls[c].attempts

\* C16: one token acquisition makes at most 20 readiness checks, each later
\* check when the 500 ms timer armed by the check before it has run out; ''
\* is returned only by the 20th check, when it too finds no provider; a check
\* that finds the provider, the 20th included, arms no further poll and asks
\* the provider for the token, and no poll follows once that has happened.
C16_AtMostTwentyChecks ==
    /\ [][\A c \in Calls :
            Checks(c) =>
                LET n == calls[c].attempts + 1
                IN  /\ n <= maxAttempts
                    /\ calls[c].pc = "poll" =>
                           /\ calls[c].wait = 0
                           /\ calls[c].elapsed = (n - 1) * PollTicks
                    /\ IF grecaptcha
                       THEN /\ calls'[c].pc = "ready"
                            /\ last'.op \in {"found", "loading"}
                       ELSE IF n < maxAttempts
                       THEN /\ calls'[c].pc = "poll"
                            /\ calls'[c].attempts = n
                            /\ calls'[c].wait = PollTicks
                       ELSE DispatchedWithoutToken(c)']_vars
    /\ [][\A c \in Calls :
            /\ calls[c].pc \in {"ready", "execute"} => calls'[c].pc # "poll"
            /\ Dispatches(c) /\ calls'[c].request.recaptchaResponse = "" =>
                   LastCheckFails(c)]_vars

\* The provider's script arrived between the 19th and the 20th check: the 20th
\* check found it.
C16_Witness ==
    \E c \in Calls :
        /\ calls[c].pc = "ready"
        /\ calls[c].attempts = maxAttempts - 1
        /\ calls[c].elapsed = (maxAttempts - 1) * PollTicks
        /\ last.op = "found"

\* Call c ends in this step.
Ends(c) == calls[c].pc # "done" /\ calls'[c].pc = "done"

\* C17: a handleSubmit call calls showStatus exactly once, in the step in
\* which it ends: never twice, never in an earlier step, never not at all.
C17_StatusSetExactlyOnce ==
    [][\A c \in Calls :
         /\ Ends(c) => last'.call = c /\ last'.showCalls = 1
         /\ calls'[c] # calls[c] /\ ~Ends(c) /\ last'.call = c =>
                last'.showCalls = 0]_vars

\* The submit control as setLoadingState(true) leaves it.
Loading(b) ==
    /\ b.disabled
    /\ page.btnText => b.btnText = "none"
    /\ page.btnLoader => b.btnLoader = "inline-block"

\* C18: in every reachable state with a submission in flight the control is
\* disabled, its label hidden, its spinner shown and no status message is
\* visible; and in every reachable state the control is disabled iff its
\* spinner is shown iff its label is hidden (for the label and spinner
\* elements the page has).
C18_LoadingStateConsistent ==
    /\ InFlightCalls # {} => Loading(button) /\ status.display # "block"
    /\ page.btnText => (button.disabled <=> button.btnText = "none")
    /\ page.btnLoader => (button.disabled <=> button.btnLoader = "inline-block")
    /\ button.disabled => InFlightCalls # {}

\* A submission in flight on the full page, entered while the validation
\* message of an earlier attempt was up.
C18_Witness ==
    /\ page = FullPage
    /\ InFlightCalls # {}
    /\ button = [btnText |-> "none", btnLoader |-> "inline-block", disabled |-> TRUE]
    /\ status = [text |-> ValidationMsg, kind |-> "error", display |-> "none"]

\* C19: the early returns never touch the loading state.  A submit event on
\* a form that fails validation leaves the control, the form fields, the
\* hidden token field and the timers as they were.  A submit event on a valid
\* form with the honeypot checked leaves the control as it was, enabled, and
\* the hidden token field as it was; it changes the status region (the
\* message and, where the page has the region, its 5-second hide timer) and
\* the user's fields, which are reset.  Neither starts a token acquisition or
\* a request.
C19_EarlyReturnsKeepLoadingState ==
    [][Submitted =>
         /\ ~checkValidity(form) =>
                /\ last'.op = "invalid"
                /\ button' = button
                /\ form' = form
                /\ timers' = timers
                /\ NoNetworkActivity
         /\ checkValidity(form) /\ page.honeypot /\ form.botcheck =>
                /\ last'.op = "honeypot"
                /\ button' = button
                /\ ~button'.disabled
                /\ form'.recaptchaResponse = form.recaptchaResponse
                /\ UserFields(form') = UserFields(DefaultForm)
                /\ timers' = IF page.statusDiv
                             THEN Append(timers, HideTicks)
                             ELSE timers
                /\ NoNetworkActivity]_vars

\* The honeypot path taken after an earlier submission was posted with the
\* token t1: the fields are reset, the hidden field still holds t1, the
\* control is enabled.
C19_Witness ==
    /\ last.op = "honeypot"
    /\ page = FullPage
    /\ button = [btnText |-> "inline", btnLoader |-> "none", disabled |-> FALSE]
    /\ form = [message |-> "", botcheck |-> FALSE, recaptchaResponse |-> "t1"]
    /\ status = [text |-> HoneypotMsg, kind |-> "success", display |-> "block"]

=============================================================================
